---------------------------- MODULE Spec2Model ----------------------------
(***************************************************************************)
(* A model of pingstat (src/pingstat.py): the pong table and its insert    *)
(* and windowed select, the pong ingestion handler, the per-room           *)
(* aggregation, the three HTTP handlers and the duration formatter.        *)
(*                                                                         *)
(* Python values are modelled as follows.                                  *)
(*   str      a TLA+ string where the code only compares or concatenates   *)
(*            it; a sequence of one-character strings where the code       *)
(*            splits it (the sender ID and the server names cut from it).  *)
(*   dict     a function; a missing key is a key outside its DOMAIN.       *)
(*   int      an integer (Python integers do not overflow).                *)
(*   float    an exact value: milliseconds for diff / 1_000, a normalised  *)
(*            fraction <<numerator, denominator>> for the averages.  Where *)
(*            the binary rounding of a float decides a result (round(x, 1) *)
(*            on a decimal tie) the rounding error's sign is computed.     *)
(***************************************************************************)
EXTENDS Integers, Sequences, FiniteSets, TLC

VARIABLES
    pongs,      \* the rows of the "pongs" table
    now,        \* int(time() * 1000)
    last,       \* the last handler call: its input and what it returned/raised
    diff,       \* the argument of prettify_diff
    rendered    \* what prettify_diff returned for diff, or NotRendered

vars == <<pongs, now, last, diff, rendered>>

(***************************************************************************)
(*                     Inputs of the modelled service                      *)
(***************************************************************************)

Rooms == {"r1", "r2"}
UnknownRoom == "r3"            \* a room no event is ever sent to
PingIds == {"p1", "p2"}

\* Sender IDs, one character per element.  The second has two ':' (a server
\* name with a port), the third has none.
SenderA == <<"@", "u", ":", "a">>
SenderB8 == <<"@", "v", ":", "b", ":", "8">>
SenderBare == <<"@", "u">>

PongKeys == {"ms", "from", "ping"}

\* d restricted to the keys K.
Restrict(d, K) == [k \in K |-> d[k]]

\* pong.ms and pong.from as each server reports them: a delay may be
\* negative, and pong.from may name another server than the sender's.
MeasurementsA == { <<6, <<"a">> >>, <<-3, <<"a">> >> }
MeasurementsB8 == { <<6, <<"c">> >> }

\* Complete pong payloads.
Payloads(measurements) ==
    { [ms |-> m[1], from |-> m[2], ping |-> p] : m \in measurements, p \in PingIds }

BasePayload == [ms |-> 6, from |-> <<"a">>, ping |-> "p1"]

Event(room, sender, content) ==
    [room_id |-> room, sender |-> sender, timestamp |-> now, content |-> content]

\* The events delivered to pong_handler.  Well-formed: every complete
\* payload of both servers in room r1, and the base payload in room r2.
\* Malformed: the base payload from a sender without ':', the base payload
\* with each proper subset of its keys, one of those from the sender without
\* ':' as well, and a notice without a "pong" key.  The transport stamps an
\* event with the current time.
Events ==
    { Event("r1", SenderA, [pong |-> pd]) : pd \in Payloads(MeasurementsA) }
    \cup { Event("r1", SenderB8, [pong |-> pd]) : pd \in Payloads(MeasurementsB8) }
    \cup { Event("r2", SenderA, [pong |-> BasePayload]) }
    \cup { Event("r1", SenderBare, [pong |-> BasePayload]) }
    \cup { Event("r1", SenderA, [pong |-> Restrict(BasePayload, K)]) :
             K \in (SUBSET PongKeys) \ {PongKeys} }
    \cup { Event("r1", SenderBare, [pong |-> Restrict(BasePayload, {"ms", "from"})]) }
    \cup { Event("r1", SenderA, <<>>) }

\* HTTP requests for a path: without a query, with another parameter only,
\* and with room_id set to each room and to a room that has no events.
Requests(path) ==
    { [rel_url |-> path, query |-> <<>>],
      [rel_url |-> path \o "?room=r1", query |-> [room |-> "r1"]] }
    \cup { [rel_url |-> path \o "?room_id=" \o r, query |-> [room_id |-> r]] :
             r \in Rooms \cup {UnknownRoom} }

\* Bounds of the model: the table holds at most MaxPongs rows and the clock
\* is advanced at most MaxTicks times.
MaxPongs == 3
MaxTicks == 2

(***************************************************************************)
(*                             The pong table                              *)
(***************************************************************************)

\* iter_pongs' default max_age: 7 * 24 * 60 * 60 * 1000.
DefaultMaxAge == 7 * 24 * 60 * 60 * 1000

\* The primary key of the table: room_id, ping_id, pong_server.
PrimaryKey(row) == <<row.room_id, row.ping_id, row.pong_server>>

\* save_pong: a plain INSERT.  A row with the same primary key makes the
\* database raise IntegrityError and leaves the table as it was.
save_pong(table, pong) ==
    IF \E row \in table : PrimaryKey(row) = PrimaryKey(pong)
    THEN [exc |-> "IntegrityError", table |-> table]
    ELSE [exc |-> "none", table |-> table \cup {pong}]

\* iter_pongs with the window's edge left out: > where the code has >=.
iter_pongs_exclusive(room_id, max_age) ==
    { row \in pongs : row.room_id = room_id /\ row.pong_timestamp > now - max_age }

\* iter_pongs: SELECT ... WHERE room_id = :room_id AND pong_timestamp >= now - max_age.
\* The rows come in no specified order: a set.
iter_pongs(room_id, max_age) ==
    { row \in pongs : row.room_id = room_id /\ row.pong_timestamp >= now - max_age }

(***************************************************************************)
(*                          The ingestion handler                          *)
(***************************************************************************)

NoPong == [room_id |-> ""]

\* What a call of pong_handler leaves behind: the exception that escaped it,
\* the warning it logged, the Pong it built and whether it marked the event read.
Handled(evt, exc, log, pong, marked) ==
    [op |-> "pong_handler", evt |-> evt, exc |-> exc, log |-> log,
     pong |-> pong, marked_read |-> marked]

\* The index of the first ":" of s, or 0.
RECURSIVE FirstColon(_, _)
FirstColon(s, i) ==
    IF i > Len(s) THEN 0
    ELSE IF s[i] = ":" THEN i
    ELSE FirstColon(s, i + 1)

\* s.split(":", 1)
split1(s) ==
    LET i == FirstColon(s, 1)
    IN  IF i = 0 THEN <<s>>
        ELSE <<SubSeq(s, 1, i - 1), SubSeq(s, i + 1, Len(s))>>

\* The second try block of pong_handler: the three payload lookups in order,
\* then the sender's split; the first failure decides the exception.
ExtractPong(evt) ==
    LET pong_data == evt.content["pong"]
        parts == split1(evt.sender)
    IN  IF ~ ({"ms", "from", "ping"} \subseteq DOMAIN pong_data)
        THEN [exc |-> "KeyError"]
        ELSE IF Len(parts) < 2
        THEN [exc |-> "IndexError"]
        ELSE [exc |-> "none", diff |-> pong_data["ms"], server |-> pong_data["from"],
              ping |-> pong_data["ping"], to |-> parts[2]]

\* MakePong with the two servers exchanged.
MakePongSwapped(evt, x) ==
    [room_id |-> evt.room_id, ping_id |-> x.ping, pong_server |-> x.server,
     ping_server |-> x.to, receive_diff |-> x.diff,
     pong_timestamp |-> evt.timestamp]

\* Pong(room_id=evt.room_id, ping_id=ping, pong_server=to, ping_server=server,
\*      receive_diff=diff, pong_timestamp=evt.timestamp)
MakePong(evt, x) ==
    [room_id |-> evt.room_id, ping_id |-> x.ping, pong_server |-> x.to,
     ping_server |-> x.server, receive_diff |-> x.diff,
     pong_timestamp |-> evt.timestamp]

\* except KeyError around evt.content["pong"]: return
OnNoPong(evt) == Handled(evt, "none", "none", NoPong, FALSE)

\* except KeyError: log a warning, return
OnKeyError(evt) == Handled(evt, "none", "invalid pong data", NoPong, FALSE)

\* pong_handler without its except IndexError clause.
OnIndexErrorUncaught(evt) == Handled(evt, "IndexError", "none", NoPong, FALSE)

\* except IndexError: log a warning, return
OnIndexError(evt) == Handled(evt, "none", "invalid sender ID", NoPong, FALSE)

\* The handler of a pong notice.  The model stops delivering events once the
\* table holds MaxPongs rows.
pong_handler(evt) ==
    /\ Cardinality(pongs) < MaxPongs
    /\ IF "pong" \notin DOMAIN evt.content
       THEN /\ last' = OnNoPong(evt)
            /\ pongs' = pongs
       ELSE LET x == ExtractPong(evt)
            IN  IF x.exc = "KeyError"
                THEN /\ last' = OnKeyError(evt)
                     /\ pongs' = pongs
                ELSE IF x.exc = "IndexError"
                THEN /\ last' = OnIndexError(evt)
                     /\ pongs' = pongs
                ELSE LET pong == MakePong(evt, x)
                         saved == save_pong(pongs, pong)
                     IN  /\ pongs' = saved.table
                         \* an exception of save_pong escapes the handler;
                         \* evt.mark_read() runs only when it returned
                         /\ last' = Handled(evt, saved.exc, "none", pong,
                                            saved.exc = "none")
    /\ UNCHANGED <<now, diff, rendered>>

(***************************************************************************)
(*                             The aggregation                             *)
(***************************************************************************)

RECURSIVE GCD(_, _)
GCD(a, b) == IF b = 0 THEN a ELSE GCD(b, a % b)

\* The value n / d, d > 0, in lowest terms.
Rat(n, d) ==
    LET g == GCD(IF n < 0 THEN -n ELSE n, d)
    IN  <<n \div g, d \div g>>

RatAdd(a, b) == Rat(a[1] * b[2] + b[1] * a[2], a[2] * b[2])

RatLeq(a, b) == a[1] * b[2] <= b[1] * a[2]

\* dict.setdefault(k, v), as the dict it leaves.
setdefault(d, k, v) ==
    IF k \in DOMAIN d THEN d
    ELSE [x \in DOMAIN d \cup {k} |-> IF x = k THEN v ELSE d[x]]

\* AddPong with negative delays clamped to 0.
AddPongClamped(data, pong) ==
    LET diff_ms == IF pong.receive_diff < 0 THEN 0 ELSE pong.receive_diff
        d1 == setdefault(data, pong.ping_server,
                         [sum |-> 0, count |-> 0, servers |-> <<>>])
        ping_server_data == d1[pong.ping_server]
        s1 == setdefault(ping_server_data.servers, pong.pong_server,
                         [sum |-> 0, count |-> 0])
        pong_server_data == s1[pong.pong_server]
    IN  [d1 EXCEPT ![pong.ping_server] =
            [sum |-> ping_server_data.sum + diff_ms,
             count |-> ping_server_data.count + 1,
             servers |-> [s1 EXCEPT ![pong.pong_server] =
                            [sum |-> pong_server_data.sum + diff_ms,
                             count |-> pong_server_data.count + 1]]]]

\* One pass of the first loop of get_room_data over a pong.
AddPong(data, pong) ==
    LET d1 == setdefault(data, pong.ping_server,
                         [sum |-> 0, count |-> 0, servers |-> <<>>])
        ping_server_data == d1[pong.ping_server]
        s1 == setdefault(ping_server_data.servers, pong.pong_server,
                         [sum |-> 0, count |-> 0])
        pong_server_data == s1[pong.pong_server]
    IN  [d1 EXCEPT ![pong.ping_server] =
            [sum |-> ping_server_data.sum + pong.receive_diff,
             count |-> ping_server_data.count + 1,
             servers |-> [s1 EXCEPT ![pong.pong_server] =
                            [sum |-> pong_server_data.sum + pong.receive_diff,
                             count |-> pong_server_data.count + 1]]]]

\* The first loop of get_room_data over the rows, in some order.
RECURSIVE Accumulate(_, _)
Accumulate(rows, data) ==
    IF rows = {} THEN data
    ELSE LET pong == CHOOSE row \in rows : TRUE
         IN  Accumulate(rows \ {pong}, AddPong(data, pong))

\* The second loop of get_room_data: average = sum / count at both levels.
WithAverages(data) ==
    [o \in DOMAIN data |->
        [sum |-> data[o].sum, count |-> data[o].count,
         average |-> Rat(data[o].sum, data[o].count),
         servers |-> [r \in DOMAIN data[o].servers |->
                        [sum |-> data[o].servers[r].sum,
                         count |-> data[o].servers[r].count,
                         average |-> Rat(data[o].servers[r].sum,
                                         data[o].servers[r].count)]]]]

\* The orders sorted(data.items(), key=average) can leave the dict in: the
\* sort is stable and the rows' order is unspecified, so origins of equal
\* average come in any order.
SortedOrders(data) ==
    { order \in [1..Cardinality(DOMAIN data) -> DOMAIN data] :
        /\ \A i, j \in DOMAIN order : i # j => order[i] # order[j]
        /\ \A i, j \in DOMAIN order :
               i < j => RatLeq(data[order[i]].average, data[order[j]].average) }

RECURSIVE SumAverages(_, _, _)
SumAverages(data, order, i) ==
    IF i > Len(order) THEN <<0, 1>>
    ELSE RatAdd(data[order[i]].average, SumAverages(data, order, i + 1))

RECURSIVE SumField(_, _, _, _)
SumField(data, order, i, field) ==
    IF i > Len(order) THEN 0
    ELSE data[order[i]][field] + SumField(data, order, i + 1, field)

\* The global average as the flat mean of all samples.
GlobalAverageFlat(data, order) ==
    IF Len(order) > 0
    THEN Rat(SumField(data, order, 1, "sum"), SumField(data, order, 1, "count"))
    ELSE <<0, 1>>

\* sum(ping_server["average"] ...) / len(data) if len(data) > 0 else 0
GlobalAverage(data, order) ==
    IF Len(order) > 0
    THEN LET total == SumAverages(data, order, 1)
         IN  Rat(total[1], total[2] * Len(order))
    ELSE <<0, 1>>

\* get_room_data(room_id): the views it can return, one per order of the
\* sorted dict.
get_room_data(room_id) ==
    LET rows == iter_pongs(room_id, DefaultMaxAge)
        data == WithAverages(Accumulate(rows, <<>>))
    IN  { [pings |-> data, order |-> order,
           average |-> GlobalAverage(data, order),
           pongservers |-> { row.pong_server : row \in rows }] :
          order \in SortedOrders(data) }

(***************************************************************************)
(*                            The HTTP handlers                            *)
(***************************************************************************)

\* The 400 response without the request's URL.
MissingRoomIdNoUrl(request) ==
    [status |-> 400, content_type |-> "text/plain",
     text |-> "Room ID query param missing\n"]

\* web.Response(status=400, text="Room ID query param missing\n" + str(request.rel_url))
MissingRoomId(request) ==
    [status |-> 400, content_type |-> "text/plain",
     text |-> "Room ID query param missing\n" \o request.rel_url]

\* What a call of an HTTP handler leaves behind: the response, and whether
\* the handler got as far as querying the table.
Served(op, request, response, queried) ==
    [op |-> op, request |-> request, response |-> response, queried |-> queried]

stats(request) ==
    /\ IF "room_id" \notin DOMAIN request.query
       THEN last' = Served("stats", request, MissingRoomId(request), FALSE)
       ELSE \E data \in get_room_data(request.query["room_id"]) :
                last' = Served("stats", request,
                               [status |-> 200, content_type |-> "text/html",
                                text |-> [template |-> "stats.html.j2", context |-> data]],
                               TRUE)
    /\ UNCHANGED <<pongs, now, diff, rendered>>

stats_raw_json(request) ==
    /\ IF "room_id" \notin DOMAIN request.query
       THEN last' = Served("stats_raw_json", request, MissingRoomId(request), FALSE)
       ELSE last' = Served("stats_raw_json", request,
                           [status |-> 200, content_type |-> "application/json",
                            text |-> iter_pongs(request.query["room_id"], DefaultMaxAge)],
                           TRUE)
    /\ UNCHANGED <<pongs, now, diff, rendered>>

stats_json(request) ==
    /\ IF "room_id" \notin DOMAIN request.query
       THEN last' = Served("stats_json", request, MissingRoomId(request), FALSE)
       ELSE \E data \in get_room_data(request.query["room_id"]) :
                last' = Served("stats_json", request,
                               [status |-> 200, content_type |-> "application/json",
                                text |-> data],
                               TRUE)
    /\ UNCHANGED <<pongs, now, diff, rendered>>

(***************************************************************************)
(*                         The duration formatter                          *)
(***************************************************************************)

Abs(n) == IF n < 0 THEN -n ELSE n

\* str(n) for a Python int.
StrInt(n) == ToString(n)

\* n / 1_000 rounded to the nearest integer, ties to the even integer:
\* round(x) of a float x whose exact value is ms thousandths, ms >= 0.
RoundHalfEven(ms) ==
    LET q == ms \div 1000
        r == ms % 1000
    IN  IF r > 500 \/ (r = 500 /\ q % 2 = 1) THEN q + 1 ELSE q

RECURSIVE Pow2Mod125(_)
Pow2Mod125(k) == IF k = 0 THEN 1 ELSE (2 * Pow2Mod125(k - 1)) % 125

\* The sign of double(a / 1000) - a / 1000 for an integer 8000 <= a < 64000.
\* The double keeps 53 significant bits, so it is the integer nearest to
\* a * 2^e / 1000 = a * 2^(e-3) / 125 over 2^e, with e = 49, 48, 47 for a
\* quotient in [8,16), [16,32), [32,64).
FloatErrorSign(a) ==
    LET e == IF a < 16000 THEN 49 ELSE IF a < 32000 THEN 48 ELSE 47
        r == ((a % 125) * Pow2Mod125(e - 3)) % 125
    IN  IF r = 0 THEN 0 ELSE IF 2 * r < 125 THEN -1 ELSE 1

\* round(a / 1_000, 1) in tenths, for an integer 10000 <= a < 60000: the
\* decimal nearest to the double, ties (exact only when the double is) to even.
RoundTenths(a) ==
    LET q == a \div 100
        r == a % 100
        up == \/ r > 50
              \/ r = 50 /\ FloatErrorSign(a) > 0
              \/ r = 50 /\ FloatErrorSign(a) = 0 /\ q % 2 = 1
    IN  IF up THEN q + 1 ELSE q

\* str(x) for a float x of t tenths.
StrTenths(t) ==
    (IF t < 0 THEN "-" ELSE "") \o StrInt(Abs(t) \div 10) \o "." \o StrInt(Abs(t) % 10)

\* plural(num, unit) once num is rounded: num and its rendering str.
plural(num, str, unit) ==
    IF num = 1 THEN str \o " " \o unit ELSE str \o " " \o unit \o "s"

pluralInt(num, unit) == plural(num, StrInt(num), unit)

\* The ms branch with <= where the code has <.
InMsBranchInclusive(d) == Abs(d) <= 10 * 1000

\* The ms branch of prettify_diff: abs(diff) < 10 * 1_000.
InMsBranch(d) == Abs(d) < 10 * 1000

\* The second branch of prettify_diff: abs(diff) < 60 * 1_000.
InSecondBranch(d) == Abs(d) < 60 * 1000

\* prettify_diff(diff) for an int diff: the text, the branch taken and the
\* numbers rendered, coarsest unit first.
prettify_diff(d) ==
    IF InMsBranch(d) THEN
        \* round(diff, 1) of an int is that int
        [text |-> StrInt(d) \o " ms", unit |-> "ms", nums |-> <<d>>]
    ELSE IF InSecondBranch(d) THEN
        LET t == IF d < 0 THEN -RoundTenths(-d) ELSE RoundTenths(d)
        IN  [text |-> plural(IF t = 10 THEN 1 ELSE 0, StrTenths(t), "second"),
             unit |-> "second", nums |-> <<t>>]
    ELSE
        LET minutes == d \div 60000                 \* divmod(diff / 1_000, 60)
            seconds == RoundHalfEven(d % 60000)
            hours   == minutes \div 60              \* divmod(minutes, 60)
            minutes2 == minutes % 60
            days    == hours \div 24                \* divmod(hours, 24)
            hours2  == hours % 24
        IN  IF Abs(minutes) < 60 THEN
                [text |-> pluralInt(minutes, "minute") \o " and "
                          \o pluralInt(seconds, "second"),
                 unit |-> "minute", nums |-> <<minutes, seconds>>]
            ELSE IF Abs(hours) < 24 THEN
                [text |-> pluralInt(hours, "hour") \o ", "
                          \o pluralInt(minutes2, "minute") \o " and "
                          \o pluralInt(seconds, "second"),
                 unit |-> "hour", nums |-> <<hours, minutes2, seconds>>]
            ELSE
                [text |-> pluralInt(days, "day") \o ", "
                          \o pluralInt(hours2, "hour") \o ","
                          \o pluralInt(minutes2, "minute") \o " and "
                          \o pluralInt(seconds, "second"),
                 unit |-> "day", nums |-> <<days, hours2, minutes2, seconds>>]

NotRendered == [text |-> "", unit |-> "none", nums |-> <<>>]

\* The durations the formatter is applied to: every value within Radius of
\* a threshold or of a rounding tie, and its negation.
Radius == 2

Anchors ==
    { 0, 1, 1000, 5000, 10000, 12250, 12350, 15000, 59950, 60000, 60500, 61500,
      65000, 119500, 120000, 3540000, 3600000, 3661000, 86340000, 86400000,
      90061000 }

DiffInputs ==
    { s * (a + o) : s \in {-1, 1}, a \in Anchors, o \in (-Radius)..Radius }

Prettify ==
    /\ rendered = NotRendered
    /\ rendered' = prettify_diff(diff)
    /\ UNCHANGED <<pongs, now, last, diff>>

InitFmt ==
    /\ pongs = {}
    /\ now = 0
    /\ last = [op |-> "start"]
    /\ diff \in DiffInputs
    /\ rendered = NotRendered

NextFmt == Prettify

SpecFmt == InitFmt /\ [][NextFmt]_vars

(***************************************************************************)
(*                         The service as a whole                          *)
(***************************************************************************)

\* Time passes: one window's length at a time.  Times are counted from the
\* service's start.
Tick ==
    /\ now < MaxTicks * DefaultMaxAge
    /\ now' = now + DefaultMaxAge
    /\ last' = [op |-> "tick"]
    /\ UNCHANGED <<pongs, diff, rendered>>

\* After start(): metadata.create_all leaves an empty table.
Init ==
    /\ pongs = {}
    /\ now = 0
    /\ last = [op |-> "start"]
    /\ diff = 0
    /\ rendered = NotRendered

Ingest == \E evt \in Events : pong_handler(evt)
GetStats == \E request \in Requests("/stats") : stats(request)
GetStatsJson == \E request \in Requests("/stats.json") : stats_json(request)
GetStatsRawJson == \E request \in Requests("/stats.raw.json") : stats_raw_json(request)

Next == Ingest \/ GetStats \/ GetStatsJson \/ GetStatsRawJson \/ Tick

Spec == Init /\ [][Next]_vars

(***************************************************************************)
(*                        Properties of the service                        *)
(***************************************************************************)

\* t is the part of s after its first ":".
AfterFirstColon(s, t) ==
    \E i \in 1..Len(s) :
        /\ s[i] = ":"
        /\ \A j \in 1..(i - 1) : s[j] # ":"
        /\ t = SubSeq(s, i + 1, Len(s))

HasPayload(evt) == "pong" \in DOMAIN evt.content

WellFormed(evt) ==
    /\ HasPayload(evt)
    /\ PongKeys \subseteq DOMAIN evt.content["pong"]
    /\ \E i \in 1..Len(evt.sender) : evt.sender[i] = ":"

Malformed(evt) ==
    /\ HasPayload(evt)
    /\ \/ \E k \in PongKeys : k \notin DOMAIN evt.content["pong"]
       \/ \A i \in 1..Len(evt.sender) : evt.sender[i] # ":"

Ingested == last.op = "pong_handler"

\* C1: every write of a well-formed sample raises no error and leaves exactly
\* one stored row for its key, equal to the sample written; a second write
\* with the same key replaces the first (upsert by primary key).
C1_UpsertByKey ==
    (Ingested /\ WellFormed(last.evt)) =>
        /\ last.exc = "none"
        /\ { row \in pongs : PrimaryKey(row) = PrimaryKey(last.pong) } = {last.pong}

\* The rows of a room that are not older than the default window.
InWindow(room) ==
    { row \in pongs : row.room_id = room /\ now - row.pong_timestamp <= DefaultMaxAge }

MaxAges == {0, DefaultMaxAge, 2 * DefaultMaxAge}

RawServed == last.op = "stats_raw_json" /\ last.response.status = 200

\* C2: for every room and max_age the query returns exactly the stored rows
\* of that room with pong_timestamp >= now - max_age (none older, none of
\* another room, none left out), the empty result for an unknown room, and
\* the default max_age is 604,800,000 ms.
C2_WindowedQuery ==
    /\ DefaultMaxAge = 604800000
    /\ \A room \in Rooms \cup {UnknownRoom}, max_age \in MaxAges :
          /\ iter_pongs(room, max_age) \subseteq pongs
          /\ \A row \in pongs :
                row \in iter_pongs(room, max_age)
                   <=> (row.room_id = room /\ ~ (row.pong_timestamp < now - max_age))
    /\ \A max_age \in MaxAges : iter_pongs(UnknownRoom, max_age) = {}
    /\ RawServed => last.response.text = InWindow(last.request.query["room_id"])

\* C2's case: a raw query that returns a row exactly max_age old, leaves out
\* an older row of the same room and a row of another room.
C2_Witness ==
    /\ RawServed
    /\ \E row \in last.response.text : row.pong_timestamp = now - DefaultMaxAge
    /\ \E row \in pongs \ last.response.text :
          row.room_id = last.request.query["room_id"]
    /\ \E row \in pongs : row.room_id # last.request.query["room_id"]

\* C3: an event whose pong payload lacks ms, from or ping, or whose sender has
\* no ':', leaves the table unchanged and lets no exception escape; a
\* well-formed event with a new key handled right after it is stored.
C3_MalformedDropped ==
    [][ /\ (last'.op = "pong_handler" /\ Malformed(last'.evt)) =>
              (pongs' = pongs /\ last'.exc = "none" /\ last'.pong = NoPong)
        /\ ( /\ Ingested /\ Malformed(last.evt)
             /\ last'.op = "pong_handler" /\ WellFormed(last'.evt)
             /\ \A row \in pongs : PrimaryKey(row) # PrimaryKey(last'.pong) ) =>
              (last'.exc = "none" /\ pongs' = pongs \cup {last'.pong} /\ pongs' # pongs)
      ]_vars

\* C3's case: a malformed event was dropped, with a warning, while the table
\* held rows.
C3_Witness ==
    /\ Ingested /\ Malformed(last.evt)
    /\ last.log = "invalid sender ID"
    /\ pongs # {}

\* The view a stats or stats.json call computed.
AggregateServed ==
    last.op \in {"stats", "stats_json"} /\ last.response.status = 200

View == IF last.op = "stats" THEN last.response.text.context ELSE last.response.text

Window == InWindow(last.request.query["room_id"])

Origins == { row.ping_server : row \in Window }

From(origin) == { row \in Window : row.ping_server = origin }

RECURSIVE SumDiffs(_)
SumDiffs(rows) ==
    IF rows = {} THEN 0
    ELSE LET row == CHOOSE r \in rows : TRUE
         IN  row.receive_diff + SumDiffs(rows \ {row})

RECURSIVE ProdCounts(_)
ProdCounts(origins) ==
    IF origins = {} THEN 1
    ELSE LET o == CHOOSE x \in origins : TRUE
         IN  Cardinality(From(o)) * ProdCounts(origins \ {o})

\* The sum over the origins of sum(o) / count(o), times the product of all counts.
RECURSIVE ScaledSumOfMeans(_)
ScaledSumOfMeans(origins) ==
    IF origins = {} THEN 0
    ELSE LET o == CHOOSE x \in origins : TRUE
         IN  SumDiffs(From(o)) * (ProdCounts(Origins) \div Cardinality(From(o)))
                + ScaledSumOfMeans(origins \ {o})

\* C4: the view's global average is the mean of the per-origin averages, and
\* with no samples in the window it is 0 and pings and pongservers are empty.
C4_MeanOfOriginMeans ==
    AggregateServed =>
        /\ View.average[2] > 0
        /\ View.average[1] * Cardinality(Origins) * ProdCounts(Origins)
              = View.average[2] * ScaledSumOfMeans(Origins)
        /\ Window = {} =>
              /\ View.average = <<0, 1>>
              /\ DOMAIN View.pings = {}
              /\ View.pongservers = {}

\* C4's case: two origins with different numbers of samples, where the mean
\* of the origin means is not the flat mean of the samples.
C4_Witness ==
    /\ AggregateServed
    /\ \E o1, o2 \in Origins : Cardinality(From(o1)) > Cardinality(From(o2))
    /\ View.average[1] * Cardinality(Window) # View.average[2] * SumDiffs(Window)

\* C5: every origin of the window is in the view with count = the number of
\* its samples (>= 1), sum = the sum of their delays, negative ones as they
\* are, and average = sum / count; no other origin is in the view.
C5_PerOriginMeans ==
    AggregateServed =>
        /\ DOMAIN View.pings = Origins
        /\ \A o \in Origins :
              /\ View.pings[o].count = Cardinality(From(o))
              /\ View.pings[o].count >= 1
              /\ View.pings[o].sum = SumDiffs(From(o))
              /\ View.pings[o].average[2] > 0
              /\ View.pings[o].average[1] * View.pings[o].count
                    = View.pings[o].sum * View.pings[o].average[2]

\* C5's case: an origin with two samples, one of them negative.
C5_Witness ==
    /\ AggregateServed
    /\ \E o \in Origins :
          /\ Cardinality(From(o)) = 2
          /\ \E row \in From(o) : row.receive_diff < 0
          /\ View.pings[o].sum = 3
          /\ View.pings[o].average = <<3, 2>>

Answered == last.op \in {"stats", "stats_json", "stats_raw_json"}

\* C6: on each of the three endpoints a request without room_id gets status
\* 400 and the text "Room ID query param missing\n" followed by the URL,
\* without the table being read; a request with room_id gets status 200.
C6_MissingRoomId ==
    Answered =>
        IF "room_id" \in DOMAIN last.request.query
        THEN last.response.status = 200
        ELSE /\ last.response.status = 400
             /\ last.response.text
                   = "Room ID query param missing\n" \o last.request.rel_url
             /\ last.request.rel_url
                   \in {"/stats", "/stats.json", "/stats.raw.json",
                        "/stats?room=r1", "/stats.json?room=r1",
                        "/stats.raw.json?room=r1"}
             /\ ~ last.queried

\* C6's case: a request without room_id is refused while the table holds rows.
C6_Witness ==
    /\ Answered
    /\ "room_id" \notin DOMAIN last.request.query
    /\ last.response.status = 400
    /\ pongs # {}

\* C7 as stated: the stored origin (ping_server) is the sender's part after
\* the first ':' and pong.from is the other server (pong_server).
C7_OriginFromSender ==
    (Ingested /\ WellFormed(last.evt) /\ last.exc = "none") =>
        \E row \in pongs :
            /\ row.room_id = last.evt.room_id
            /\ row.ping_id = last.evt.content["pong"]["ping"]
            /\ AfterFirstColon(last.evt.sender, row.ping_server)
            /\ row.pong_server = last.evt.content["pong"]["from"]
            /\ row.receive_diff = last.evt.content["pong"]["ms"]
            /\ row.pong_timestamp = last.evt.timestamp

\* C7, amended: the sample built from a well-formed event has pong_server =
\* the sender's part after the first ':' and ping_server = pong.from, with
\* room_id, ping_id, receive_diff and pong_timestamp from the event's room,
\* pong.ping, pong.ms and timestamp; it is the row stored when the insert
\* succeeds.
C7_ResponderFromSender ==
    (Ingested /\ WellFormed(last.evt)) =>
        /\ last.pong.room_id = last.evt.room_id
        /\ last.pong.ping_id = last.evt.content["pong"]["ping"]
        /\ AfterFirstColon(last.evt.sender, last.pong.pong_server)
        /\ last.pong.ping_server = last.evt.content["pong"]["from"]
        /\ last.pong.receive_diff = last.evt.content["pong"]["ms"]
        /\ last.pong.pong_timestamp = last.evt.timestamp
        /\ last.exc = "none" => last.pong \in pongs

\* C7's case: a stored sample whose sender has two ':' and whose origin is
\* another server than the responder.
C7_Witness ==
    /\ Ingested /\ WellFormed(last.evt) /\ last.exc = "none"
    /\ last.evt.sender = SenderB8
    /\ last.pong \in pongs
    /\ last.pong.pong_server = <<"b", ":", "8">>
    /\ last.pong.ping_server = <<"c">>

(***************************************************************************)
(*                       Properties of the formatter                       *)
(***************************************************************************)

Rendered == rendered # NotRendered

\* C8 as stated: below 10,000 ms in magnitude the value is rendered with one
\* decimal place, so that 5000 gives "5000.0 ms".
C8_OneDecimalMs ==
    (Rendered /\ Abs(diff) < 10000) => rendered.text = ToString(diff) \o ".0 ms"

\* C8, amended: for an integer diff_ms with |diff_ms| < 10,000 (9,999 in,
\* 10,000 out) the result is the integer itself, without a decimal point,
\* followed by " ms", so that 5000 gives "5000 ms"; from 10,000 on the result
\* is not in ms.
C8_IntegerMs ==
    Rendered =>
        /\ Abs(diff) < 10000 =>
              (rendered.unit = "ms" /\ rendered.text = ToString(diff) \o " ms")
        /\ Abs(diff) >= 10000 => rendered.unit # "ms"
        /\ diff = 5000 => rendered.text = "5000 ms"
        /\ diff = 9999 => rendered.text = "9999 ms"
        /\ diff = 10000 => rendered.text = "10.0 seconds"

\* C8's case: 5000 rendered.
C8_Witness == Rendered /\ diff = 5000 /\ rendered.unit = "ms"

\* C9: a negative duration is rendered in the same unit branch as its
\* absolute value and with the same magnitudes, the sign apart.
C9_NegativeMirrors ==
    (Rendered /\ diff < 0) =>
        LET positive == prettify_diff(-diff)
        IN  /\ rendered.unit = positive.unit
            /\ Len(rendered.nums) = Len(positive.nums)
            /\ \A i \in DOMAIN rendered.nums :
                  Abs(rendered.nums[i]) = Abs(positive.nums[i])

\* C10: from a minute on, the seconds rendered are in 0..59, the minutes of
\* the hour and day branches in 0..59 and the hours of the day branch in 0..23.
C10_RemaindersInRange ==
    Rendered =>
        /\ rendered.unit = "minute" => rendered.nums[2] \in 0..59
        /\ rendered.unit = "hour" =>
              (rendered.nums[2] \in 0..59 /\ rendered.nums[3] \in 0..59)
        /\ rendered.unit = "day" =>
              /\ rendered.nums[2] \in 0..23
              /\ rendered.nums[3] \in 0..59
              /\ rendered.nums[4] \in 0..59

=============================================================================
